---- MODULE Spec2Model ----
(***************************************************************************)
(* course-checker.py: a sequential polling loop (main) that calls the      *)
(* course availability checker (check_course_api) for every configured     *)
(* course and the notifier (send_email) on a found seat, on the error      *)
(* threshold and, in debug mode, once at startup.                          *)
(*                                                                         *)
(* The program is single threaded; pc is the position of its one thread.   *)
(* Every blocking call (HTTP request, SMTP exchange, sleep) is one step    *)
(* whose outcome is chosen by the environment.                             *)
(***************************************************************************)
EXTENDS Integers, Sequences, FiniteSets, TLC

\* ------------------------------------------------------------------ bounds
MaxCourses == 2     \* longest courses_to_check list
MaxLimit == 2       \* largest consecutive_error_limit
MaxData == 2        \* longest "data" list of a search response
MaxSeats == 1       \* largest seatsAvailable of an entry

\* ------------------------------------------------------- JSON / Python values
\* A JSON value as Python holds it after response.json(): kind k and payload n
\* (bool: 0/1, int: the number, str: an identifier of the text, 0 the empty
\* text).  "absent" is a key that the object does not have.
Absent == [k |-> "absent", n |-> 0]
JNull == [k |-> "null", n |-> 0]
JBool(b) == [k |-> "bool", n |-> IF b THEN 1 ELSE 0]
JInt(i) == [k |-> "int", n |-> i]
JStr(i) == [k |-> "str", n |-> i]

\* dict.get(key): None when the key is absent.
DictGet(v) == IF v.k = "absent" THEN JNull ELSE v

\* dict.get(key, 0): 0 when the key is absent (an explicit null stays None).
DictGetOrZero(v) == IF v.k = "absent" THEN JInt(0) ELSE v

\* Python truth value of a scalar.
Truthy(v) == /\ v.k \in {"bool", "int", "str"}
             /\ v.n # 0

\* bool and int are the kinds that compare with a number.
IsNumber(v) == v.k \in {"bool", "int"}

\* Python a == b on scalars: numbers by value, everything else by kind and value.
PyEq(a, b) == IF IsNumber(a) /\ IsNumber(b) THEN a.n = b.n
              ELSE a.k = b.k /\ a.n = b.n

\* str() of a value, as an f-string formats it.
Decimal == <<"0", "1", "2", "3", "4", "5", "6", "7", "8", "9">>

PyStr(v) == CASE v.k = "null" -> "None"
              [] v.k = "bool" -> (IF v.n = 1 THEN "True" ELSE "False")
              [] v.k = "int" /\ v.n \in 0..9 -> Decimal[v.n + 1]
              [] OTHER -> "?"

\* ------------------------------------------------------------ configuration
TargetCrn == JStr(1)
OtherCrn == JStr(2)

\* A course descriptor: whether it carries 'term_id', and its 'crn'.
Course == [has_term : BOOLEAN, crn : {TargetCrn}]

CourseLists == UNION {[1..n -> Course] : n \in 0..MaxCourses}

\* config.json as loaded: the courses, script_settings.consecutive_error_limit,
\* whether email_settings names an sms_gateway_email, and whether
\* email_settings holds the sender and receiver the messages are composed from.
Config == [courses_to_check : CourseLists,
           consecutive_error_limit : 0..MaxLimit,
           sms_target : BOOLEAN,
           email_ok : BOOLEAN]

\* ---------------------------------------------------------- search responses
SeatVals == {Absent, JNull} \cup {JInt(s) : s \in 0..MaxSeats}
CapVals == {Absent, JInt(MaxSeats + 1)}

NotAnObject == [obj |-> FALSE, courseReferenceNumber |-> Absent,
                seatsAvailable |-> Absent, maximumEnrollment |-> Absent]

\* The entries of a result list: the sections of the target CRN with every
\* seat count and capacity, one section of another CRN (with an open seat),
\* and one entry that is not a JSON object.
Entries == [obj : {TRUE}, courseReferenceNumber : {TargetCrn},
            seatsAvailable : SeatVals, maximumEnrollment : CapVals]
           \cup {[obj |-> TRUE, courseReferenceNumber |-> OtherCrn,
                  seatsAvailable |-> JInt(1), maximumEnrollment |-> JInt(MaxSeats + 1)],
                 NotAnObject}

EntryLists == UNION {[1..n -> Entries] : n \in 0..MaxData}

\* The "data" member: absent, null, or a list of entries.
DataVals == {[k |-> "absent", items |-> <<>>], [k |-> "null", items |-> <<>>]}
            \cup {[k |-> "list", items |-> l] : l \in EntryLists}

NoData == [obj |-> FALSE, success |-> Absent, totalCount |-> Absent,
           data |-> [k |-> "absent", items |-> <<>>]]

\* Every parsed body of the search GET: a value that is not an object, or an
\* object with success, totalCount and data.
Payloads == {NoData}
            \cup [obj : {TRUE},
                  success : {Absent, JBool(FALSE), JBool(TRUE)},
                  totalCount : {Absent, JInt(0), JInt(1)},
                  data : DataVals]

Section(crn, seats, cap) == [obj |-> TRUE, courseReferenceNumber |-> crn,
                             seatsAvailable |-> seats, maximumEnrollment |-> cap]

Found(items) == [obj |-> TRUE, success |-> JBool(TRUE), totalCount |-> JInt(1),
                 data |-> [k |-> "list", items |-> items]]

\* The responses the polling loop is run against: one of each kind.
SampleResponses ==
  {NoData,
   [Found(<<>>) EXCEPT !.success = JBool(FALSE)],
   [Found(<<>>) EXCEPT !.totalCount = JInt(0)],
   [Found(<<>>) EXCEPT !.data = [k |-> "null", items |-> <<>>]],
   Found(<<Section(OtherCrn, JInt(1), JInt(MaxSeats + 1))>>),
   Found(<<Section(TargetCrn, JInt(0), JInt(MaxSeats + 1))>>),
   Found(<<Section(TargetCrn, JNull, JInt(MaxSeats + 1))>>),
   Found(<<Section(OtherCrn, JInt(1), JInt(MaxSeats + 1)),
           Section(TargetCrn, JInt(MaxSeats), Absent)>>)}

\* -------------------------------------------------------------------- state
VARIABLES
  pc,                  \* position of the thread of control
  stopped,             \* "running", or why main has ended
  config,              \* the loaded configuration
  debug_mode,          \* args.debug
  course_idx,          \* position of the for loop in courses_to_check
  consecutive_errors,  \* main's counter
  result,              \* what check_course_api returned to main
  http,                \* how far the current checker invocation's requests got
  data,                \* the parsed search response of the current invocation
  mail,                \* the arguments and messages of the last send_email call
  calls,               \* send_email calls made so far, per kind of notification
  dispatched,          \* messages the mail server has accepted
  hist                 \* what has been observed of the run so far (history)

vars == <<pc, stopped, config, debug_mode, course_idx, consecutive_errors,
          result, http, data, mail, calls, dispatched, hist>>

\* check_course_api's three return values.
Error == "None"
Stop == "False"
Continue == "True"

Kinds == {"test", "seat", "alert"}

NoBody == [seats |-> "", capacity |-> ""]
NoMail == [kind |-> "none", body |-> NoBody, msg_sms |-> FALSE,
           connections |-> 0, sends |-> <<>>]

\* ------------------------------------------------- check_course_api, decided
\* NoSections with "and" for "or".
NoSections_Both(d) == /\ ~Truthy(DictGet(d.success))
                      /\ PyEq(DictGet(d.totalCount), JInt(0))

\* Line 93: not data.get('success') or data.get('totalCount') == 0.
NoSections(d) == \/ ~Truthy(DictGet(d.success))
                 \/ PyEq(DictGet(d.totalCount), JInt(0))

\* ScanFrom without the comparison of the CRN: the entry at hand is taken.
ScanFrom_AnyCrn(items, crn, k) ==
  IF k > Len(items) THEN 0
  ELSE IF ~items[k].obj THEN -1
  ELSE k

\* Line 97: next((s for s in ... if s.get('courseReferenceNumber') == crn), None)
\* from position k on: the index of the first entry whose CRN equals crn, 0 when
\* the list ends without one, -1 when an entry reached before any match is not
\* an object (s.get raises AttributeError).
RECURSIVE ScanFrom(_, _, _)
ScanFrom(items, crn, k) ==
  IF k > Len(items) THEN 0
  ELSE IF ~items[k].obj THEN -1
  ELSE IF PyEq(DictGet(items[k].courseReferenceNumber), crn) THEN k
  ELSE ScanFrom(items, crn, k + 1)

Outcome(kind, seats, capacity) == [kind |-> kind, seats |-> seats, capacity |-> capacity]

\* SectionOutcome with the seat count compared with one instead of zero.
SectionOutcome_MoreThanOne(target_section) ==
  LET seats_available == DictGetOrZero(target_section.seatsAvailable)
      capacity == DictGetOrZero(target_section.maximumEnrollment)
  IN IF ~IsNumber(seats_available) THEN Outcome("raise", "", "")
     ELSE IF seats_available.n > 1
          THEN Outcome("notify", PyStr(seats_available), PyStr(capacity))
          ELSE Outcome("continue", "", "")

\* Lines 103-121 on the matched entry: TypeError when seatsAvailable does not
\* compare with 0, else the notification when it is positive.
SectionOutcome(target_section) ==
  LET seats_available == DictGetOrZero(target_section.seatsAvailable)
      capacity == DictGetOrZero(target_section.maximumEnrollment)
  IN IF ~IsNumber(seats_available) THEN Outcome("raise", "", "")
     ELSE IF seats_available.n > 0
          THEN Outcome("notify", PyStr(seats_available), PyStr(capacity))
          ELSE Outcome("continue", "", "")

\* Lines 93-121 on the parsed response d for a course with the given crn:
\* "continue" (return True), "notify" (send_email, then return False) with the
\* texts of the seat count and the capacity in the body, or "raise" (an
\* exception that neither except clause of lines 123-128 catches).
CheckOutcome(d, crn) ==
  IF ~d.obj THEN Outcome("raise", "", "")
  ELSE IF NoSections(d) THEN Outcome("continue", "", "")
  ELSE IF d.data.k = "null" THEN Outcome("raise", "", "")
  ELSE LET m == ScanFrom(d.data.items, crn, 1)
       IN IF m = -1 THEN Outcome("raise", "", "")
          ELSE IF m = 0 THEN Outcome("continue", "", "")
          ELSE SectionOutcome(d.data.items[m])

\* ------------------------------------------------------------ main, decided
\* CountErrors without the reset of line 179.
CountErrors_NoReset(res, n) == IF res = Error THEN n + 1 ELSE n

\* Lines 172-179: the counter after a checker result.
CountErrors(res, n) == IF res = Error THEN n + 1
                       ELSE IF res = Stop THEN n
                       ELSE 0

\* LimitReached with > for >=.
LimitReached_Strict(n, limit) == n > limit

\* Line 181.
LimitReached(n, limit) == n >= limit

\* HasTerm without the test of line 166.
HasTerm_Any(course) == TRUE

\* Line 166.
HasTerm(course) == course.has_term

\* ------------------------------------------------------------------ history
\* The history: the Error outcomes the checker has returned in a row up to now,
\* the requests the current invocation has issued, and whether any request
\* has been issued at all.
NoHist == [error_run |-> 0, requests |-> <<>>, polled |-> FALSE]

\* The history after the checker has returned res.
Returned(res) ==
  [hist EXCEPT !.error_run = IF res # Error THEN 0
                             ELSE IF @ <= MaxLimit THEN @ + 1 ELSE @]

\* The history after the current invocation has issued the request.
Requested(method) ==
  [hist EXCEPT !.requests = Append(@, method), !.polled = TRUE]

\* ------------------------------------------------------------------ actions
Init ==
  /\ pc = "load"
  /\ stopped = "running"
  /\ config \in Config
  /\ debug_mode \in BOOLEAN
  /\ course_idx = 0
  /\ consecutive_errors = 0
  /\ result = "unset"
  /\ http = "none"
  /\ data = NoData
  /\ mail = NoMail
  /\ calls = [k \in Kinds |-> 0]
  /\ dispatched = {}
  /\ hist = NoHist

\* A call of send_email(subject, body, config) for a notification of this kind.
Call(kind, body) ==
  /\ pc' = "compose"
  /\ mail' = [kind |-> kind, body |-> body, msg_sms |-> FALSE,
              connections |-> 0, sends |-> <<>>]
  /\ calls' = [calls EXCEPT ![kind] = @ + 1]

\* send_email returns to its caller: the test email to main before the loop,
\* the seat notification to check_course_api, which returns False, and the
\* failure alert to main, which returns.
Return ==
  /\ pc' = (CASE mail.kind = "test" -> "cycle"
              [] mail.kind = "seat" -> "result"
              [] OTHER -> "done")
  /\ result' = IF mail.kind = "seat" THEN Stop ELSE result
  /\ stopped' = IF mail.kind = "alert" THEN "alert" ELSE stopped
  /\ hist' = IF mail.kind = "seat" THEN Returned(Stop) ELSE hist

\* An exception nothing catches ends the process with a traceback.
Uncaught(where) ==
  /\ pc' = "done"
  /\ stopped' = where

\* Lines 139-141: config.json is read and parsed.
LoadConfig ==
  /\ pc = "load"
  /\ pc' = "debug"
  /\ UNCHANGED <<stopped, config, debug_mode, course_idx, consecutive_errors,
                 result, http, data, mail, calls, dispatched, hist>>

\* Lines 142-144: the file is missing or malformed.
LoadFail ==
  /\ pc = "load"
  /\ pc' = "done"
  /\ stopped' = "config"
  /\ UNCHANGED <<config, debug_mode, course_idx, consecutive_errors,
                 result, http, data, mail, calls, dispatched, hist>>

\* DebugTest without the test of the debug flag.
DebugTest_Always ==
  /\ pc = "debug"
  /\ Call("test", NoBody)
  /\ UNCHANGED <<stopped, config, debug_mode, course_idx, consecutive_errors,
                 result, http, data, dispatched, hist>>

\* Lines 146-153: the test email of debug mode.
DebugTest ==
  /\ pc = "debug"
  /\ debug_mode
  /\ Call("test", NoBody)
  /\ UNCHANGED <<stopped, config, debug_mode, course_idx, consecutive_errors,
                 result, http, data, dispatched, hist>>

\* Lines 146, 155-161 without debug mode.
NoDebug ==
  /\ pc = "debug"
  /\ ~debug_mode
  /\ pc' = "cycle"
  /\ UNCHANGED <<stopped, config, debug_mode, course_idx, consecutive_errors,
                 result, http, data, mail, calls, dispatched, hist>>

\* Lines 163-165: a cycle starts at the first course.
CycleStart ==
  /\ pc = "cycle"
  /\ pc' = "for"
  /\ course_idx' = 1
  /\ UNCHANGED <<stopped, config, debug_mode, consecutive_errors,
                 result, http, data, mail, calls, dispatched, hist>>

\* Lines 166-168: a descriptor without 'term_id' is skipped.
SkipCourse ==
  /\ pc = "for"
  /\ course_idx <= Len(config.courses_to_check)
  /\ ~HasTerm(config.courses_to_check[course_idx])
  /\ course_idx' = course_idx + 1
  /\ UNCHANGED <<pc, stopped, config, debug_mode, consecutive_errors,
                 result, http, data, mail, calls, dispatched, hist>>

\* Line 170: check_course_api is called for the course.
CheckCourse ==
  /\ pc = "for"
  /\ course_idx <= Len(config.courses_to_check)
  /\ HasTerm(config.courses_to_check[course_idx])
  /\ pc' = "post"
  /\ result' = "unset"
  /\ http' = "none"
  /\ data' = NoData
  /\ hist' = [hist EXCEPT !.requests = <<>>]
  /\ UNCHANGED <<stopped, config, debug_mode, course_idx, consecutive_errors,
                 mail, calls, dispatched>>

\* Lines 190-191: the list is exhausted; sleep main_interval_seconds.
CycleEnd ==
  /\ pc = "for"
  /\ course_idx > Len(config.courses_to_check)
  /\ pc' = "cycle_sleep"
  /\ UNCHANGED <<stopped, config, debug_mode, course_idx, consecutive_errors,
                 result, http, data, mail, calls, dispatched, hist>>

CycleSleep ==
  /\ pc = "cycle_sleep"
  /\ pc' = "cycle"
  /\ UNCHANGED <<stopped, config, debug_mode, course_idx, consecutive_errors,
                 result, http, data, mail, calls, dispatched, hist>>

\* Post without raise_for_status and without the way out of the try: the GET
\* follows a failed POST.
Post_FailureGoesOn ==
  /\ pc = "post"
  /\ \E ok \in BOOLEAN :
       /\ pc' = "get"
       /\ http' = IF ok THEN "posted" ELSE "post_failed"
       /\ hist' = Requested("POST")
       /\ UNCHANGED result
  /\ UNCHANGED <<stopped, config, debug_mode, course_idx, consecutive_errors,
                 data, mail, calls, dispatched>>

\* Post with the failure taken for "no seat": the checker returns True.
Post_FailureReturnsTrue ==
  /\ pc = "post"
  /\ \E ok \in BOOLEAN :
       IF ok THEN /\ pc' = "get"
                  /\ http' = "posted"
                  /\ hist' = Requested("POST")
                  /\ UNCHANGED result
             ELSE /\ pc' = "result"
                  /\ http' = "post_failed"
                  /\ result' = Continue
                  /\ hist' = [Requested("POST") EXCEPT !.error_run = 0]
  /\ UNCHANGED <<stopped, config, debug_mode, course_idx, consecutive_errors,
                 data, mail, calls, dispatched>>

\* Lines 72-73: the term POST; a RequestException (connection, timeout, status)
\* is caught at line 123 and the checker returns None.
Post ==
  /\ pc = "post"
  /\ \E ok \in BOOLEAN :
       IF ok THEN /\ pc' = "get"
                  /\ http' = "posted"
                  /\ hist' = Requested("POST")
                  /\ UNCHANGED result
             ELSE /\ pc' = "result"
                  /\ http' = "post_failed"
                  /\ result' = Error
                  /\ hist' = [Requested("POST") EXCEPT
                                !.error_run = Returned(Error).error_run]
  /\ UNCHANGED <<stopped, config, debug_mode, course_idx, consecutive_errors,
                 data, mail, calls, dispatched>>

\* Lines 84-87: the search GET and response.json().  A RequestException or a
\* JSON decode failure is caught (lines 123-128) and the checker returns None;
\* else the body parses to one of the given responses.
Get(responses) ==
  /\ pc = "get"
  /\ \/ /\ \E failure \in {"get_failed", "json_failed"} : http' = failure
        /\ pc' = "result"
        /\ result' = Error
        /\ hist' = [Requested("GET") EXCEPT
                      !.error_run = Returned(Error).error_run]
        /\ UNCHANGED data
     \/ /\ \E d \in responses : data' = d
        /\ http' = "parsed"
        /\ pc' = "eval"
        /\ hist' = Requested("GET")
        /\ UNCHANGED result
  /\ UNCHANGED <<stopped, config, debug_mode, course_idx, consecutive_errors,
                 mail, calls, dispatched>>

\* Lines 93-121: the parsed response is examined.
Examine ==
  /\ pc = "eval"
  /\ LET o == CheckOutcome(data, config.courses_to_check[course_idx].crn)
     IN CASE o.kind = "raise" ->
               /\ Uncaught("checker_exception")
               /\ UNCHANGED <<result, mail, calls, hist>>
          [] o.kind = "continue" ->
               /\ pc' = "result"
               /\ result' = Continue
               /\ hist' = Returned(Continue)
               /\ UNCHANGED <<stopped, mail, calls>>
          [] OTHER ->
               /\ Call("seat", [seats |-> o.seats, capacity |-> o.capacity])
               /\ UNCHANGED <<stopped, result, hist>>
  /\ UNCHANGED <<config, debug_mode, course_idx, consecutive_errors,
                 http, data, dispatched>>

\* HandleResult without the return of line 177.
HandleResult_StopGoesOn ==
  /\ pc = "result"
  /\ consecutive_errors' = CountErrors(result, consecutive_errors)
  /\ pc' = "threshold"
  /\ UNCHANGED <<stopped, config, debug_mode, course_idx, result, http, data,
                 mail, calls, dispatched, hist>>

\* Lines 172-179: main acts on the result.
HandleResult ==
  /\ pc = "result"
  /\ consecutive_errors' = CountErrors(result, consecutive_errors)
  /\ IF result = Stop THEN pc' = "done" /\ stopped' = "seat"
                      ELSE pc' = "threshold" /\ UNCHANGED stopped
  /\ UNCHANGED <<config, debug_mode, course_idx, result, http, data, mail,
                 calls, dispatched, hist>>

\* Lines 181-186: the limit is reached; the failure alert is sent.
Alert ==
  /\ pc = "threshold"
  /\ LimitReached(consecutive_errors, config.consecutive_error_limit)
  /\ Call("alert", NoBody)
  /\ UNCHANGED <<stopped, config, debug_mode, course_idx, consecutive_errors,
                 result, http, data, dispatched, hist>>

\* Line 188: sleep inter_course_delay_seconds, then the next course.
CourseSleep ==
  /\ pc = "threshold"
  /\ ~LimitReached(consecutive_errors, config.consecutive_error_limit)
  /\ pc' = "for"
  /\ course_idx' = course_idx + 1
  /\ UNCHANGED <<stopped, config, debug_mode, consecutive_errors,
                 result, http, data, mail, calls, dispatched, hist>>

\* ---------------------------------------------------------------- send_email
\* Lines 14-35, outside the try of line 37: the messages are built from
\* email_settings; a missing or malformed sender or receiver raises here.
Compose ==
  /\ pc = "compose"
  /\ IF config.email_ok
     THEN /\ pc' = "connect"
          /\ mail' = [mail EXCEPT !.msg_sms = config.sms_target]
          /\ UNCHANGED stopped
     ELSE /\ Uncaught("notifier_exception")
          /\ UNCHANGED mail
  /\ UNCHANGED <<config, debug_mode, course_idx, consecutive_errors,
                 result, http, data, calls, dispatched, hist>>

\* Connect with a failed seat notification reported to main as an Error.
Connect_FailureIsError ==
  /\ pc = "connect"
  /\ \E ok \in BOOLEAN :
       IF ok THEN pc' = "primary" /\ UNCHANGED <<result, stopped, hist>>
       ELSE IF mail.kind = "seat"
            THEN /\ pc' = "result"
                 /\ result' = Error
                 /\ hist' = Returned(Error)
                 /\ UNCHANGED stopped
            ELSE Return
  /\ mail' = [mail EXCEPT !.connections = @ + 1]
  /\ UNCHANGED <<config, debug_mode, course_idx, consecutive_errors,
                 http, data, calls, dispatched>>

\* Lines 38-41: connect, STARTTLS, login; a failure is caught at line 52.
Connect ==
  /\ pc = "connect"
  /\ \E ok \in BOOLEAN :
       IF ok THEN pc' = "primary" /\ UNCHANGED <<result, stopped, hist>>
             ELSE Return
  /\ mail' = [mail EXCEPT !.connections = @ + 1]
  /\ UNCHANGED <<config, debug_mode, course_idx, consecutive_errors,
                 http, data, calls, dispatched>>

\* SendPrimary with the SMS sent although the standard email failed.
SendPrimary_FailureGoesOn ==
  /\ pc = "primary"
  /\ \E ok \in BOOLEAN :
       /\ mail' = [mail EXCEPT !.sends = Append(@, <<"email", ok>>)]
       /\ dispatched' = IF ok THEN dispatched \cup {<<mail.kind, "email">>}
                               ELSE dispatched
       /\ IF mail.msg_sms
          THEN pc' = "sms" /\ UNCHANGED <<result, stopped, hist>>
          ELSE Return
  /\ UNCHANGED <<config, debug_mode, course_idx, consecutive_errors,
                 http, data, calls>>

\* Line 44: the standard email.
SendPrimary ==
  /\ pc = "primary"
  /\ \E ok \in BOOLEAN :
       /\ mail' = [mail EXCEPT !.sends = Append(@, <<"email", ok>>)]
       /\ IF ok THEN /\ dispatched' = dispatched \cup {<<mail.kind, "email">>}
                     /\ IF mail.msg_sms
                        THEN pc' = "sms" /\ UNCHANGED <<result, stopped, hist>>
                        ELSE Return
                ELSE /\ Return
                     /\ UNCHANGED dispatched
  /\ UNCHANGED <<config, debug_mode, course_idx, consecutive_errors,
                 http, data, calls>>

\* Lines 48-50: the SMS email.
SendSms ==
  /\ pc = "sms"
  /\ \E ok \in BOOLEAN :
       /\ mail' = [mail EXCEPT !.sends = Append(@, <<"sms", ok>>)]
       /\ dispatched' = IF ok THEN dispatched \cup {<<mail.kind, "sms">>}
                               ELSE dispatched
  /\ Return
  /\ UNCHANGED <<config, debug_mode, course_idx, consecutive_errors,
                 http, data, calls>>

\* ----------------------------------------------------------- specifications
SendEmail == Compose \/ Connect \/ SendPrimary \/ SendSms

Next ==
  \/ LoadConfig \/ LoadFail \/ DebugTest \/ NoDebug
  \/ CycleStart \/ SkipCourse \/ CheckCourse \/ CycleEnd \/ CycleSleep
  \/ Post \/ Get(SampleResponses) \/ Examine
  \/ HandleResult \/ Alert \/ CourseSleep
  \/ SendEmail

Spec == Init /\ [][Next]_vars

\* One invocation of check_course_api, on every response of Payloads, up to
\* main's handling of its result.
InitChecker ==
  /\ pc = "post"
  /\ stopped = "running"
  /\ config \in {c \in Config :
                   /\ c.courses_to_check = <<[has_term |-> TRUE, crn |-> TargetCrn]>>
                   /\ c.consecutive_error_limit = MaxLimit
                   /\ c.sms_target}
  /\ debug_mode = FALSE
  /\ course_idx = 1
  /\ consecutive_errors \in 0..(MaxLimit - 1)
  /\ result = "unset"
  /\ http = "none"
  /\ data = NoData
  /\ mail = NoMail
  /\ calls = [k \in Kinds |-> 0]
  /\ dispatched = {}
  /\ hist = NoHist

NextChecker ==
  \/ Post \/ Get(Payloads) \/ Examine
  \/ Compose \/ Connect \/ SendPrimary \/ SendSms
  \/ HandleResult

SpecChecker == InitChecker /\ [][NextChecker]_vars

\* ------------------------------------------------------------------- claims
InSendEmail == pc \in {"compose", "connect", "primary", "sms"}

Limit == config.consecutive_error_limit

\* C1 as stated: the counter is reset to zero right after a Continue or a Stop
\* outcome, goes up by exactly one on an Error outcome, and no other step of
\* the loop changes it.
C1_ResetOnContinueOrStop ==
  [][/\ (pc = "result" /\ result \in {Continue, Stop}) => consecutive_errors' = 0
     /\ (pc = "result" /\ result = Error) => consecutive_errors' = consecutive_errors + 1
     /\ pc # "result" => consecutive_errors' = consecutive_errors]_vars

\* C1 as amended: main's step on a checker result sets the counter to zero on
\* Continue, adds exactly one on Error and leaves it as it is on Stop (main
\* returns at once); no other step changes it.
C1_CounterSteps ==
  [][/\ (pc = "result" /\ result = Continue) => consecutive_errors' = 0
     /\ (pc = "result" /\ result = Error) => consecutive_errors' = consecutive_errors + 1
     /\ (pc = "result" /\ result = Stop) => consecutive_errors' = consecutive_errors
     /\ pc # "result" => consecutive_errors' = consecutive_errors]_vars

\* main has returned on Stop with the count of an earlier Error still standing.
C1_Witness ==
  /\ stopped = "seat"
  /\ result = Stop
  /\ consecutive_errors = 1

\* C2: with a limit of at least one, once the counter has reached the limit
\* after a course the next step is the one call of send_email for the failure
\* alert, and from then on main only runs that call and ends: no sleep, no
\* checker invocation, no second alert.  The counter is at the limit nowhere else.
C2_AlertThenStop ==
  /\ [][(pc = "threshold" /\ Limit >= 1 /\ consecutive_errors >= Limit)
          => /\ pc' = "compose"
             /\ mail'.kind = "alert"
             /\ calls'["alert"] = 1]_vars
  /\ []((Limit >= 1 /\ calls["alert"] > 0)
          => /\ calls["alert"] = 1
             /\ mail.kind = "alert"
             /\ InSendEmail \/ pc = "done")
  /\ []((Limit >= 1 /\ consecutive_errors >= Limit)
          => \/ pc = "threshold"
             \/ calls["alert"] = 1)

\* The alert went out at the limit and main has returned.
C2_Witness ==
  /\ Limit = 2
  /\ consecutive_errors = 2
  /\ calls["alert"] = 1
  /\ <<"alert", "email">> \in dispatched
  /\ stopped = "alert"

\* C3: once config.json is loaded, main ends only on a Stop outcome or on the
\* counter reaching the limit.
C3_OnlyStopOrLimit ==
  pc = "done" => stopped \in {"config", "seat", "alert"}

\* C4: when main has returned on Stop, the mail server has accepted the
\* seat-found email.
C4_StopOnlyAfterDispatch ==
  stopped = "seat" => <<"seat", "email">> \in dispatched

\* The checker has examined the parsed response of this invocation.
Examined == http = "parsed" /\ pc # "eval"

Crn == config.courses_to_check[course_idx].crn

Items == data.data.items

\* Entry k of the result list is an object whose CRN is the target's and whose
\* seatsAvailable is a positive number.
OpenMatch(k) ==
  /\ Items[k].obj
  /\ Items[k].courseReferenceNumber = Crn
  /\ Items[k].seatsAvailable.k = "int"
  /\ Items[k].seatsAvailable.n > 0

\* The body names the seat count and the capacity (0 when absent) of entry k.
BodyOf(k) ==
  /\ mail.kind = "seat"
  /\ mail.body.seats = Decimal[Items[k].seatsAvailable.n + 1]
  /\ mail.body.capacity = IF Items[k].maximumEnrollment.k = "absent" THEN "0"
                          ELSE Decimal[Items[k].maximumEnrollment.n + 1]

C6_NoSectionsContinues ==
  (/\ Examined
   /\ data.obj
   /\ data.success \in {Absent, JBool(FALSE)} \/ data.totalCount = JInt(0))
    => /\ result = Continue
       /\ pc \in {"result", "threshold"}
       /\ stopped = "running"
       /\ mail = NoMail
       /\ \A kind \in Kinds : calls[kind] = 0
       /\ dispatched = {}
       /\ pc = "threshold" => consecutive_errors = 0

\* totalCount 0 beside a true success flag and an open section of the target
\* CRN: Continue, and the counter is back at zero.
C6_Witness ==
  /\ pc = "threshold"
  /\ data.success = JBool(TRUE)
  /\ data.totalCount = JInt(0)
  /\ Len(Items) > 0
  /\ OpenMatch(1)
  /\ result = Continue
  /\ consecutive_errors = 0

\* C7: a response object whose result list (empty when the member is missing)
\* holds only sections of other CRNs makes the checker return Continue without
\* any notification.
C7_AbsentCrnContinues ==
  (/\ Examined
   /\ data.obj
   /\ data.data.k \in {"absent", "list"}
   /\ \A k \in 1..Len(Items) : Items[k].obj /\ Items[k].courseReferenceNumber # Crn)
    => /\ result = Continue
       /\ pc \in {"result", "threshold"}
       /\ stopped = "running"
       /\ \A kind \in Kinds : calls[kind] = 0
       /\ dispatched = {}

\* Sections are reported, two of them with open seats, none of the target CRN.
C7_Witness ==
  /\ pc = "result"
  /\ result = Continue
  /\ data.success = JBool(TRUE)
  /\ data.totalCount = JInt(1)
  /\ Len(Items) = 2
  /\ \A k \in 1..2 : Items[k].courseReferenceNumber = OtherCrn /\ Items[k].seatsAvailable.n > 0

Courses == config.courses_to_check

\* C8: a descriptor without a term identifier never reaches the checker (the
\* requests of an invocation are made for a descriptor that has one), and the
\* step that meets it only moves the loop to the next descriptor: the counter,
\* the requests, the result and the notifications stay as they are.
C8_NoTermSkipped ==
  /\ [](pc \in {"post", "get", "eval", "result"} => Courses[course_idx].has_term)
  /\ [][(/\ pc = "for"
         /\ course_idx <= Len(Courses)
         /\ ~Courses[course_idx].has_term)
          => /\ pc' = "for"
             /\ course_idx' = course_idx + 1
             /\ UNCHANGED <<consecutive_errors, result, http, data, mail, calls,
                            dispatched, stopped>>]_vars

\* In the second cycle the descriptor without term_id has been passed over
\* with the count of the first cycle's error standing.
C8_Witness ==
  /\ pc = "for"
  /\ course_idx = 2
  /\ Len(Courses) = 2
  /\ ~Courses[1].has_term
  /\ Courses[2].has_term
  /\ http = "get_failed"
  /\ consecutive_errors = 1

FailedRequest == http \in {"post_failed", "get_failed", "json_failed"}

\* C9: a failed POST, a failed GET and a body that is no JSON make the checker
\* return Error without a notification and without an escaping exception; main
\* counts the outcome and, below the limit, goes on with the loop.
C9_FailureIsError ==
  /\ [](FailedRequest
          => /\ result = Error
             /\ pc \notin {"post", "get", "eval"}
             /\ calls["seat"] = 0
             /\ stopped \notin {"seat", "checker_exception"})
  /\ [][(pc = "result" /\ FailedRequest)
          => /\ consecutive_errors' = consecutive_errors + 1
             /\ pc' = "threshold"
             /\ stopped' = "running"]_vars
  /\ [][(pc = "threshold" /\ FailedRequest /\ consecutive_errors < Limit)
          => /\ pc' = "for"
             /\ stopped' = "running"]_vars

\* Below the limit, the loop has gone on to the next course after counting a
\* failed POST.
C9_Witness ==
  /\ pc = "for"
  /\ course_idx = 2
  /\ http = "post_failed"
  /\ result = Error
  /\ consecutive_errors = 1
  /\ Limit = 2
  /\ stopped = "running"

\* C10: send_email always returns to its caller; no exception of the notifier
\* ends the process.
C10_NotifierAlwaysReturns ==
  stopped # "notifier_exception"

\* C11: what a step of the mail exchange does to the loop does not depend on
\* whether it succeeds: the counter, the loop position, the requests and the
\* number of notifications stay as they are, and send_email returns to the
\* same place with the same checker outcome (Stop for a seat notification) and
\* the same driver state, accepted or not.
C11_SendOutcomeIgnored ==
  [][(pc \in {"connect", "primary", "sms"})
       => /\ UNCHANGED <<consecutive_errors, course_idx, calls, http, data,
                         config, debug_mode>>
          /\ \/ pc' \in {"primary", "sms"} /\ UNCHANGED <<result, stopped, hist>>
             \/ /\ mail.kind = "test"
                /\ pc' = "cycle"
                /\ UNCHANGED <<result, stopped, hist>>
             \/ /\ mail.kind = "seat"
                /\ pc' = "result"
                /\ result' = Stop
                /\ stopped' = "running"
                /\ hist'.error_run = 0
             \/ /\ mail.kind = "alert"
                /\ pc' = "done"
                /\ stopped' = "alert"
                /\ UNCHANGED <<result, hist>>]_vars

\* The SMS of the test email failed and the seat notification found no
\* connection, and main has ended on Stop all the same.
C11_Witness ==
  /\ debug_mode
  /\ config.sms_target
  /\ <<"test", "email">> \in dispatched
  /\ <<"test", "sms">> \notin dispatched
  /\ mail.kind = "seat"
  /\ mail.connections = 1
  /\ mail.sends = <<>>
  /\ stopped = "seat"

\* C12: with a limit L of at least one, the failure alert is called for only
\* right after main has handled an Error that completes an unbroken run of
\* exactly L Error outcomes, it is called for as soon as such a run is
\* complete, and when it has been called for no seat notification was ever sent.
C12_AlertAfterExactRun ==
  /\ [][(Limit >= 1 /\ calls'["alert"] # calls["alert"])
          => /\ pc = "threshold"
             /\ result = Error
             /\ hist.error_run = Limit
             /\ calls'["alert"] = 1]_vars
  /\ [][(Limit >= 1 /\ pc = "threshold" /\ hist.error_run >= Limit)
          => calls'["alert"] = 1]_vars
  /\ []((Limit >= 1 /\ hist.error_run >= Limit)
          => /\ hist.error_run = Limit
             /\ pc \in {"result", "threshold"} \/ calls["alert"] = 1)
  /\ []((Limit >= 1 /\ calls["alert"] > 0)
          => /\ calls["seat"] = 0
             /\ \A channel \in {"email", "sms"} : <<"seat", channel>> \notin dispatched)

\* The alert has gone out after two errors of the first course in two cycles,
\* the descriptor without term_id between them not counting.
C12_Witness ==
  /\ Limit = 2
  /\ Len(config.courses_to_check) = 2
  /\ ~config.courses_to_check[2].has_term
  /\ course_idx = 1
  /\ hist.error_run = 2
  /\ calls["alert"] = 1
  /\ stopped = "alert"

\* C13: in debug mode send_email is called for the test email exactly once,
\* before any request of a course check; without debug mode never.
C13_OneTestBeforePolling ==
  /\ [](~debug_mode => calls["test"] = 0)
  /\ [](debug_mode
          => /\ calls["test"] <= 1
             /\ hist.polled => calls["test"] = 1
             /\ (pc \notin {"load", "debug"} /\ stopped # "config") => calls["test"] = 1
             /\ (mail.kind = "test" /\ InSendEmail) => ~hist.polled)
  /\ [][calls'["test"] # calls["test"] => (pc = "debug" /\ ~hist.polled)]_vars

\* The one test email was followed by checks that ended in the failure alert.
C13_Witness ==
  /\ debug_mode
  /\ calls["test"] = 1
  /\ <<"test", "email">> \in dispatched
  /\ hist.polled
  /\ stopped = "alert"

\* C14: once the checker has returned Stop, main's next step ends the process
\* and nothing else happens: no course, cycle or sleep, no request, no
\* notification, no failure alert.
C14_StopEndsAtOnce ==
  /\ [](result = Stop
          => /\ pc \in {"result", "done"}
             /\ calls["seat"] = 1
             /\ calls["alert"] = 0)
  /\ [][(pc = "result" /\ result = Stop)
          => /\ pc' = "done"
             /\ stopped' = "seat"
             /\ UNCHANGED <<course_idx, http, data, mail, calls, dispatched, hist>>]_vars
  /\ [][pc # "done"]_vars

\* main has ended on the Stop of the first course with a second course, which
\* has a term identifier, never checked.
C14_Witness ==
  /\ stopped = "seat"
  /\ Len(config.courses_to_check) = 2
  /\ config.courses_to_check[2].has_term
  /\ course_idx = 1
  /\ calls = [k \in Kinds |-> IF k = "seat" THEN 1 ELSE 0]

\* C15: in every checker invocation the POST is the first request and the GET
\* the second, the GET is issued only after a POST that succeeded, the notifier
\* is called only once the GET's response has been parsed, and a failed POST
\* gives Error with no GET and no notification.
C15_StepsInOrder ==
  /\ hist.requests \in {<<>>, <<"POST">>, <<"POST", "GET">>}
  /\ pc = "post" => hist.requests = <<>>
  /\ pc = "get" => (http = "posted" /\ hist.requests = <<"POST">>)
  /\ Len(hist.requests) = 2 => http \in {"parsed", "get_failed", "json_failed"}
  /\ http = "post_failed"
       => /\ hist.requests = <<"POST">>
          /\ result = Error
          /\ calls["seat"] = 0
  /\ (calls["seat"] > 0 \/ pc = "eval")
       => /\ http = "parsed"
          /\ hist.requests = <<"POST", "GET">>

\* After an invocation whose POST failed, the next one has gone through POST,
\* GET and the notifier and has returned Stop.
C15_Witness ==
  /\ pc = "result"
  /\ result = Stop
  /\ consecutive_errors = 1
  /\ hist.requests = <<"POST", "GET">>
  /\ calls["seat"] = 1

\* C16: in one send_email call the SMS message exists only when a gateway is
\* configured; one connection is opened at most; the standard email is the
\* first and only first send, the SMS the second and only after the standard
\* email was accepted; after a failed connection, login or send nothing more is
\* sent in the call.
C16_SmsAfterPrimary ==
  /\ [](/\ mail.msg_sms => config.sms_target
        /\ mail.connections \in {0, 1}
        /\ Len(mail.sends) <= 2
        /\ Len(mail.sends) >= 1
             => /\ mail.sends[1][1] = "email"
                /\ mail.connections = 1
        /\ Len(mail.sends) = 2
             => /\ mail.sends[1] = <<"email", TRUE>>
                /\ mail.sends[2][1] = "sms"
                /\ mail.msg_sms
        /\ pc = "primary" => (mail.sends = <<>> /\ mail.connections = 1)
        /\ pc = "sms" => (mail.sends = <<<<"email", TRUE>>>> /\ mail.msg_sms))
  /\ [][(pc = "connect" /\ pc' # "primary")
          => (mail'.sends = <<>> /\ pc' \notin {"compose", "connect", "primary", "sms"})]_vars
  /\ [][(pc = "primary" /\ dispatched' = dispatched)
          => (Len(mail'.sends) = 1 /\ pc' \notin {"compose", "connect", "primary", "sms"})]_vars
  /\ [][(pc = "primary" /\ dispatched' # dispatched /\ ~config.sms_target)
          => (Len(mail'.sends) = 1 /\ pc' \notin {"compose", "connect", "primary", "sms"})]_vars
  /\ [][(pc = "sms") => pc' \notin {"compose", "connect", "primary", "sms"}]_vars

\* A call has sent the standard email and then failed to send the SMS, over
\* its one connection, and has returned.
C16_Witness ==
  /\ ~InSendEmail
  /\ mail.kind = "alert"
  /\ mail.connections = 1
  /\ mail.sends = <<<<"email", TRUE>>, <<"sms", FALSE>>>>
  /\ dispatched = {<<"alert", "email">>}

\* C17: with a limit L of at least one the counter is never above L, and it is
\* between 0 and L-1 whenever the checker is invoked or running and whenever
\* main sleeps or goes on to the next course or cycle.
C17_CounterBelowLimit ==
  Limit >= 1
    => /\ consecutive_errors \in 0..Limit
       /\ pc \in {"load", "debug", "cycle", "for", "cycle_sleep", "post", "get", "eval"}
            => consecutive_errors \in 0..(Limit - 1)
       /\ (InSendEmail /\ mail.kind # "alert") => consecutive_errors \in 0..(Limit - 1)

\* The checker is invoked with the counter one below the largest limit.
C17_Witness ==
  /\ pc = "post"
  /\ Limit = MaxLimit
  /\ consecutive_errors = Limit - 1
  /\ Limit - 1 >= 1

\* C18: whatever JSON value the search GET returns, the checker returns
\* Continue, Stop or Error; no exception of the checker ends the process.
C18_CheckerTotal ==
  stopped # "checker_exception"

\* The program is one sequential thread: as long as main has a next step, and
\* every request, send and sleep comes to an end, a step is taken.
FairSpec == Init /\ [][Next]_vars /\ WF_vars(Next)

\* A descriptor of the list has a term identifier.
SomeTerm == \E i \in 1..Len(Courses) : HasTerm(Courses[i])

\* C19: with a limit of at least one and a descriptor that has a term
\* identifier, a loop in which from some point on every invocation returns
\* Error (none gets as far as examining a response) ends with main returned
\* after the one failure alert; with no descriptor that has a term identifier
\* the loop never leaves its course and cycle steps, checks nothing and goes
\* from cycle to cycle for ever.
C19_ErrorsEndInAlert ==
  /\ (pc = "for" /\ Limit >= 1 /\ SomeTerm)
       ~> (pc = "eval" \/ (stopped = "alert" /\ calls["alert"] = 1))
  /\ [][(~SomeTerm /\ pc \in {"cycle", "for", "cycle_sleep"})
          => (pc' \in {"cycle", "for", "cycle_sleep"} /\ hist' = NoHist)]_vars
  /\ (~SomeTerm /\ pc = "cycle_sleep") ~> (pc = "cycle")

====
